---- MODULE Spec2Model ----
(***************************************************************************)
(* Model of the section segmenter and snippet scorer (src/src/             *)
(* nlp_pipeline.py) and of the batch extractor (src/src/pdf_extractor.py). *)
(* A Python str is a sequence of one-character strings.                    *)
(***************************************************************************)
EXTENDS Integers, Sequences, FiniteSets, TLC

\* ------------------------------------------------------------ constants
MinHeadingRest == 3
MaxHeaderRest == 50
MinCapsLen == 4
MaxShapeLen == 100
MaxShapeWords == 10
DefaultFontSize == 12
BoldBit == 16
ItalicBit == 4
YearDigits == 4
MinSentenceLen == 20
ShortSentenceLen == 50
LongSentenceLen == 200
DefaultMaxLength == 250

\* ------------------------------------------------------------ characters
UPPER == <<"A", "B", "C", "D", "E", "F", "G", "H", "I", "J", "K", "L", "M", "N", "O", "P", "Q", "R", "S", "T", "U", "V", "W", "X", "Y", "Z">>
LOWER == <<"a", "b", "c", "d", "e", "f", "g", "h", "i", "j", "k", "l", "m", "n", "o", "p", "q", "r", "s", "t", "u", "v", "w", "x", "y", "z">>
UpperSet == {UPPER[k] : k \in 1..Len(UPPER)}
LowerSet == {LOWER[k] : k \in 1..Len(LOWER)}
LetterSet == UpperSet \cup LowerSet
DigitSet == {"0", "1", "2", "3", "4", "5", "6", "7", "8", "9"}
\* the whitespace str.strip(), str.split() and the regex class \s remove,
\* restricted to the characters the inputs are built from
WS == {" ", "\t", "\n", "\r"}

\* str.lower() of one character
lower_of == [c \in UpperSet |-> LOWER[CHOOSE k \in 1..Len(UPPER) : UPPER[k] = c]]

lower_char(c) == IF c \in UpperSet THEN lower_of[c] ELSE c

\* str.lower()
lower(s) == [k \in 1..Len(s) |-> lower_char(s[k])]

\* ------------------------------------------------------------ str methods
\* the first index from lo upwards whose character is outside (inside) the
\* set cs, Len(s) + 1 when there is none; the last index from hi downwards
\* whose character is outside cs, 0 when there is none
first_outside(s, cs, lo) ==
  CHOOSE k \in lo..(Len(s) + 1) :
     /\ k > Len(s) \/ s[k] \notin cs
     /\ \A j \in lo..(k - 1) : s[j] \in cs

first_inside(s, cs, lo) ==
  CHOOSE k \in lo..(Len(s) + 1) :
     /\ k > Len(s) \/ s[k] \in cs
     /\ \A j \in lo..(k - 1) : s[j] \notin cs

last_outside(s, cs, hi) ==
  CHOOSE k \in 0..hi :
     /\ k < 1 \/ s[k] \notin cs
     /\ \A j \in (k + 1)..hi : s[j] \in cs

\* str.strip()
strip(s) == SubSeq(s, first_outside(s, WS, 1), last_outside(s, WS, Len(s)))

\* str.split(c) for a one-character separator: always at least one piece
RECURSIVE split_on(_, _)
split_on(s, c) ==
  LET k == first_inside(s, {c}, 1)
  IN IF k > Len(s) THEN <<s>>
     ELSE <<SubSeq(s, 1, k - 1)>> \o split_on(SubSeq(s, k + 1, Len(s)), c)

\* str.split() with no argument: the whitespace-separated words, each from
\* a character outside WS that follows the start or a character of WS up to
\* the next character of WS
split_ws(s) ==
  LET starts == {k \in 1..Len(s) : s[k] \notin WS /\ (k = 1 \/ s[k - 1] \in WS)}
      start(j) == CHOOSE k \in starts : Cardinality({i \in starts : i < k}) = j - 1
  IN [j \in 1..Cardinality(starts) |->
        SubSeq(s, start(j), first_inside(s, WS, start(j)) - 1)]

\* sep.join(parts)
RECURSIVE join(_, _)
join(sep, parts) ==
  IF parts = <<>> THEN <<>>
  ELSE IF Len(parts) = 1 THEN parts[1]
  ELSE parts[1] \o sep \o join(sep, Tail(parts))

\* sub in s
contains(s, sub) ==
  \E k \in 1..(Len(s) - Len(sub) + 1) :
     \A j \in 1..Len(sub) : s[k + j - 1] = sub[j]

\* s[:n] for n >= 0
prefix(s, n) == SubSeq(s, 1, IF n < Len(s) THEN n ELSE Len(s))

\* ------------------------------------------------------------ header shapes
\* the tail  \s+[A-Za-z].{3,50}$  of the numbered, roman and letter shapes,
\* matched from position p of s ('.' is any character but a newline)
heading_tail(s, p) ==
  \E w \in 1..Len(s) :
     /\ \A k \in p..(p + w - 1) : k <= Len(s) /\ s[k] \in WS
     /\ p + w <= Len(s)
     /\ s[p + w] \in LetterSet
     /\ Len(s) - (p + w) >= MinHeadingRest
     /\ Len(s) - (p + w) <= MaxHeaderRest
     /\ \A k \in (p + w + 1)..Len(s) : s[k] # "\n"

\* the shapes  ^(\d+\.?\s+...)$  and  ^([IVX]+\.?\s+...)$ : one or more
\* characters of class, an optional '.', then the tail
prefixed_heading(s, class) ==
  \E d \in 1..Len(s) :
     /\ \A k \in 1..d : s[k] \in class
     /\ \/ heading_tail(s, d + 1)
        \/ (d + 1 <= Len(s) /\ s[d + 1] = "." /\ heading_tail(s, d + 2))

\* ^([A-Z][A-Za-z\s&:\-]{3,50})$
title_case_header(s) ==
  /\ Len(s) >= 1 + MinHeadingRest
  /\ Len(s) <= 1 + MaxHeaderRest
  /\ s[1] \in UpperSet
  /\ \A k \in 2..Len(s) : s[k] \in LetterSet \cup WS \cup {"&", ":", "-"}

\* ^([A-Z0-9\s]{4,50})$
all_caps_header(s) ==
  /\ Len(s) >= MinCapsLen
  /\ Len(s) <= MaxHeaderRest
  /\ \A k \in 1..Len(s) : s[k] \in UpperSet \cup DigitSet \cup WS

\* ^(\d+\.?\s+[A-Za-z].{3,50})$
numbered_header(s) == prefixed_heading(s, DigitSet)

\* ^([A-Za-z\s]+:)$
colon_header(s) ==
  /\ Len(s) >= 2
  /\ s[Len(s)] = ":"
  /\ \A k \in 1..(Len(s) - 1) : s[k] \in LetterSet \cup WS

\* ^([IVX]+\.?\s+[A-Za-z].{3,50})$
roman_header(s) == prefixed_heading(s, {"I", "V", "X"})

\* ^([A-Za-z]\.\s+[A-Za-z].{3,50})$
letter_header(s) ==
  /\ Len(s) >= 2
  /\ s[1] \in LetterSet
  /\ s[2] = "."
  /\ heading_tail(s, 3)

\* self.header_patterns: a line is matched when any of the six shapes matches
header_patterns(s) ==
  \/ title_case_header(s)
  \/ all_caps_header(s)
  \/ numbered_header(s)
  \/ colon_header(s)
  \/ roman_header(s)
  \/ letter_header(s)

\* self.structure_indicators
structure_indicators ==
  { <<"i", "n", "t", "r", "o", "d", "u", "c", "t", "i", "o", "n">>, <<"c", "o", "n", "c", "l", "u", "s", "i", "o", "n">>, <<"s", "u", "m", "m", "a", "r", "y">>, <<"o", "v", "e", "r", "v", "i", "e", "w">>, <<"b", "a", "c", "k", "g", "r", "o", "u", "n", "d">>,
    <<"m", "e", "t", "h", "o", "d", "o", "l", "o", "g", "y">>, <<"m", "e", "t", "h", "o", "d", "s">>, <<"r", "e", "s", "u", "l", "t", "s">>, <<"d", "i", "s", "c", "u", "s", "s", "i", "o", "n">>, <<"r", "e", "f", "e", "r", "e", "n", "c", "e", "s">>,
    <<"a", "p", "p", "e", "n", "d", "i", "x">>, <<"c", "h", "a", "p", "t", "e", "r">>, <<"s", "e", "c", "t", "i", "o", "n">>, <<"p", "a", "r", "t">>, <<"t", "a", "b", "l", "e">>, <<"f", "i", "g", "u", "r", "e">> }

\* ------------------------------------------------------------ font signal
\* a font span is [size |-> integer, flags |-> integer bitmask]
bit_set(flags, bit) == (flags \div bit) % 2 = 1

RECURSIVE sum_seq(_)
sum_seq(q) == IF q = <<>> THEN 0 ELSE Head(q) + sum_seq(Tail(q))

\* sizes = [f['size'] for f in font_info if f['size'] > 0]
font_sizes(font_info) ==
  SelectSeq([k \in 1..Len(font_info) |-> font_info[k].size], LAMBDA x : x > 0)

\* font_data['size'] > avg_size + 0.5 * std_size, with avg_size and std_size
\* as _calculate_font_statistics sets them: the mean and the population
\* standard deviation of sizes (12 and 0 without sizes, deviation 0 for one
\* size). With n sizes of sum S and square sum Q the test is
\*   n*size - S > 0.5 * sqrt(n*Q - S*S),
\* decided here in integers.
above_size_threshold(size, font_info) ==
  LET sizes == font_sizes(font_info)
      n == Len(sizes)
      S == sum_seq(sizes)
      Q == sum_seq([k \in 1..n |-> sizes[k] * sizes[k]])
      d == n * size - S
  IN IF n = 0 THEN size > DefaultFontSize
     ELSE d > 0 /\ 4 * d * d > n * Q - S * S

\* the font-based branch of _is_likely_header; font_stats is set exactly when
\* font_info is not empty, and line_idx counts from 0
font_header(line_idx, font_info) ==
  /\ font_info # <<>>
  /\ line_idx < Len(font_info)
  /\ LET font_data == font_info[line_idx + 1]
     IN \/ above_size_threshold(font_data.size, font_info)
        \/ bit_set(font_data.flags, BoldBit)
        \/ bit_set(font_data.flags, ItalicBit)

\* the length and format heuristics of _is_likely_header
shape_header(line) ==
  /\ Len(line) < MaxShapeLen
  /\ Len(split_ws(line)) <= MaxShapeWords
  /\ line[Len(line)] # "."
  /\ line[1] \in UpperSet
  /\ ":" \notin {line[k] : k \in 1..Len(line)}

\* _is_likely_header(line, font_stats, line_idx, font_info), line being a
\* stripped non-empty line
is_likely_header(line, line_idx, font_info) ==
  \/ header_patterns(line)
  \/ font_header(line_idx, font_info)
  \/ LET line_lower == lower(line)
     IN \E indicator \in structure_indicators : contains(line_lower, indicator)
  \/ shape_header(line)

\* ------------------------------------------------------------ segmentation
NL == <<"\n">>
\* current_title = None; a title is only ever set to a stripped non-blank
\* line, and None and "" are both falsy where the title is tested
None == <<>>
UntitledSection == <<"U", "n", "t", "i", "t", "l", "e", "d", " ", "S", "e", "c", "t", "i", "o", "n">>

\* "Save previous section" / "Add final section": the sections list after
\* the pending (current_title, current_content) is flushed
flush(secs, title, content_lines) ==
  IF title # None \/ content_lines # <<>>
  THEN LET content == strip(join(NL, content_lines))
       IN IF content # <<>>
          THEN Append(secs, <<IF title # None THEN title ELSE UntitledSection,
                              content>>)
          ELSE secs
  ELSE secs

\* a segmenter that forgets "Add final section"
final_sections_forgotten(acc) == acc.sections

\* "Add final section": the list detect_sections_universal returns
final_sections(acc) ==
  flush(acc.sections, acc.current_title, acc.current_content)

\* a segmenter whose header branch keeps current_content
on_header_keeps_content(acc, line_stripped) ==
  [sections |-> flush(acc.sections, acc.current_title, acc.current_content),
   current_title |-> line_stripped,
   current_content |-> acc.current_content]

\* the accumulator of detect_sections_universal after a header line
on_header(acc, line_stripped) ==
  [sections |-> flush(acc.sections, acc.current_title, acc.current_content),
   current_title |-> line_stripped,
   current_content |-> <<>>]

\* a segmenter that appends line_stripped in place of line
on_content_stripped(acc, line) ==
  [acc EXCEPT !.current_content = Append(@, strip(line))]

\* a segmenter that drops a line that is no header after a header was seen
on_content_dropped(acc, line) ==
  IF acc.current_title = None
  THEN [acc EXCEPT !.current_content = Append(@, line)]
  ELSE acc

\* the accumulator after a line that is no header
on_content(acc, line) ==
  [acc EXCEPT !.current_content = Append(@, line)]

\* one iteration of "for i, line in enumerate(lines)"
loop_body(acc, line, i, fonts) ==
  LET line_stripped == strip(line)
  IN IF line_stripped = <<>> THEN acc
     ELSE IF is_likely_header(line_stripped, i, fonts)
          THEN on_header(acc, line_stripped)
          ELSE on_content(acc, line)

RECURSIVE scan_lines(_, _, _, _)
scan_lines(acc, ls, i, fonts) ==
  IF i >= Len(ls) THEN acc
  ELSE scan_lines(loop_body(acc, ls[i + 1], i, fonts), ls, i + 1, fonts)

\* detect_sections_universal(page_text, font_info) as a function
detect_sections_universal(text, fonts) ==
  LET acc == scan_lines([sections |-> <<>>, current_title |-> None,
                         current_content |-> <<>>],
                        split_on(text, "\n"), 0, fonts)
  IN final_sections(acc)

\* ------------------------------------------------------------ annotation
\* _classify_section_type(title, content)
has_any(s, words) == \E w \in words : contains(s, w)

classify_section_type(title) ==
  LET title_lower == lower(title)
  IN IF has_any(title_lower, {<<"i", "n", "t", "r", "o", "d", "u", "c", "t", "i", "o", "n">>, <<"i", "n", "t", "r", "o">>, <<"o", "v", "e", "r", "v", "i", "e", "w">>, <<"b", "a", "c", "k", "g", "r", "o", "u", "n", "d">>})
     THEN "introduction"
     ELSE IF has_any(title_lower, {<<"c", "o", "n", "c", "l", "u", "s", "i", "o", "n">>, <<"s", "u", "m", "m", "a", "r", "y">>, <<"f", "i", "n", "a", "l">>, <<"e", "n", "d">>})
     THEN "conclusion"
     ELSE IF has_any(title_lower, {<<"m", "e", "t", "h", "o", "d">>, <<"a", "p", "p", "r", "o", "a", "c", "h">>, <<"t", "e", "c", "h", "n", "i", "q", "u", "e">>, <<"p", "r", "o", "c", "e", "s", "s">>})
     THEN "methodology"
     ELSE IF has_any(title_lower, {<<"r", "e", "s", "u", "l", "t">>, <<"f", "i", "n", "d", "i", "n", "g">>, <<"o", "u", "t", "c", "o", "m", "e">>, <<"d", "a", "t", "a">>})
     THEN "results"
     ELSE IF has_any(title_lower, {<<"d", "i", "s", "c", "u", "s", "s", "i", "o", "n">>, <<"a", "n", "a", "l", "y", "s", "i", "s">>, <<"i", "n", "t", "e", "r", "p", "r", "e", "t", "a", "t", "i", "o", "n">>})
     THEN "discussion"
     ELSE IF has_any(title_lower, {<<"r", "e", "f", "e", "r", "e", "n", "c", "e">>, <<"b", "i", "b", "l", "i", "o", "g", "r", "a", "p", "h">>})
     THEN "references"
     ELSE "content"

\* re.search(r'\d', text)
has_numbers(text) == \E k \in 1..Len(text) : text[k] \in DigitSet

\* re.search(r'\[(.*?)\]|\b\d{4}\b', text)
word_char(c) == c \in LetterSet \cup DigitSet \cup {"_"}

has_references(text) ==
  \/ \E a \in 1..Len(text) : \E b \in (a + 1)..Len(text) :
        /\ text[a] = "["
        /\ text[b] = "]"
        /\ \A k \in (a + 1)..(b - 1) : text[k] # "\n"
  \/ \E a \in 1..(Len(text) - YearDigits + 1) :
        /\ \A k \in a..(a + YearDigits - 1) : text[k] \in DigitSet
        /\ (a = 1 \/ ~word_char(text[a - 1]))
        /\ (a + YearDigits > Len(text) \/ ~word_char(text[a + YearDigits]))

\* len([s for s in section_text.split('.') if s.strip()])
sentence_count(text) ==
  Len(SelectSeq(split_on(text, "."), LAMBDA x : strip(x) # <<>>))

\* an admission test that also drops a body of exactly min_section_length
admitted_strictly_longer(text, min_len) == Len(strip(text)) > min_len

\* the admission test of split_documents_into_sections: the section is
\* kept unless len(section_text.strip()) < min_section_length
admitted(text, min_len) == ~(Len(strip(text)) < min_len)

\* the record appended to section_chunks
section_record(doc, page_num, title, text) ==
  [document |-> doc,
   page_number |-> page_num,
   section_title |-> title,
   section_text |-> text,
   word_count |-> Len(split_ws(text)),
   char_count |-> Len(text),
   sentence_count |-> sentence_count(text),
   has_numbers |-> has_numbers(text),
   has_references |-> has_references(text),
   section_type |-> classify_section_type(title)]

\* ------------------------------------------------------------ snippet scoring
\* a score is the exact fraction [num, den] with den > 0; the floats of the
\* source are compared here as the fractions they approximate
greater(x, y) == x.num * y.den > y.num * x.den

same_score(x, y) == x.num * y.den = y.num * x.den

\* sentences = [s.strip() for s in section_text.split('.')
\*              if s.strip() and len(s.strip()) > 20]
candidate_sentences(text) ==
  LET pieces == split_on(text, ".")
      stripped == [k \in 1..Len(pieces) |-> strip(pieces[k])]
  IN SelectSeq(stripped, LAMBDA x : x # <<>> /\ Len(x) > MinSentenceLen)

\* set(text.lower().split())
word_set(text) ==
  LET ws == split_ws(lower(text)) IN {ws[k] : k \in 1..Len(ws)}

\* sentences.index(sentence), counted from 0, for the candidate at place k
index_of(sents, k) ==
  (CHOOSE j \in 1..Len(sents) :
      sents[j] = sents[k + 1] /\ \A i \in 1..(j - 1) : sents[i] # sents[k + 1]) - 1

\* final_score = overlap_score + position_bonus + length_penalty of a
\* sentence scored at position pos of n:
\*   overlap / (words + 1) + (n - pos) / n * 0.1 - (0.1 if penalised)
score_at(sentence, query_words, pos, n) ==
  LET sentence_words == word_set(sentence)
      overlap == Cardinality(query_words \cap sentence_words)
      words == Cardinality(sentence_words)
      penalised == Len(sentence) < ShortSentenceLen \/ Len(sentence) > LongSentenceLen
  IN [num |-> 10 * n * overlap + (n - pos) * (words + 1)
              - (IF penalised THEN n * (words + 1) ELSE 0),
      den |-> 10 * n * (words + 1)]

\* the score the loop gives the candidate at place k (counted from 0)
final_score(sents, query_words, k) ==
  score_at(sents[k + 1], query_words, index_of(sents, k), Len(sents))

\* sentence_scores.sort(key=lambda x: x[1], reverse=True): a stable sort,
\* the pairs of equal score keep their order
RECURSIVE sort_by_score(_)
sort_by_score(pairs) ==
  IF pairs = <<>> THEN <<>>
  ELSE LET best == CHOOSE k \in 1..Len(pairs) :
                     /\ \A j \in 1..Len(pairs) : ~greater(pairs[j][2], pairs[k][2])
                     /\ \A j \in 1..(k - 1) : greater(pairs[k][2], pairs[j][2])
       IN <<pairs[best]>> \o
          sort_by_score(SubSeq(pairs, 1, best - 1) \o
                        SubSeq(pairs, best + 1, Len(pairs)))

SentenceEnd == <<".", " ">>

\* a test that forgets the ". " the sentence is appended with
fits_without_suffix(res, sentence, max_len) == Len(res \o sentence) <= max_len

\* len(result + sentence + ". ") <= max_length
fits(res, sentence, max_len) == Len(res \o sentence \o SentenceEnd) <= max_len

\* sentences[0][:max_length], the value returned when nothing was accumulated
fallback_snippet(sents, max_len) == prefix(sents[1], max_len)

\* ------------------------------------------------------------ inputs
\* the lines of all pages of one batch together
MaxLines == 4

\* the lines pages are built from: a blank line, two header lines, and two
\* lines no pattern, vocabulary term or shape rule makes a header (14
\* characters; 15 characters of which the first is a space)
LineVocab ==
  { <<>>, <<"S", "u", "m", "m", "a", "r", "y">>, <<"n", "o", "t", "e", "s", ":">>, <<"f", "o", "u", "r", "t", "e", "e", "n", " ", "c", "h", "a", "r", "s">>, <<" ", "a", "n", "d", " ", "o", "n", "e", " ", "m", "o", "r", "e", " ", "x">> }

\* the page texts of n lines
PageTexts(n) == { join(NL, ls) : ls \in [1..n -> LineVocab] }

\* font span lists as the reader hands them over: none, or one span per
\* line: plain, bold, larger than the threshold, and one of size 0 (left
\* out of the statistics)
FontInfos ==
  { <<>>,
    <<[size |-> 10, flags |-> 0], [size |-> 10, flags |-> 16],
      [size |-> 14, flags |-> 0], [size |-> 0, flags |-> 0]>> }

\* docs_text holds one document; its pages are drawn as they are read
doc_name == <<"a", ".", "p", "d", "f">>

DefaultMinSectionLength == 30
\* config.get('min_section_length', 30)
MinSectionLengths == {0, DefaultMinSectionLength}

\* the sentences of one section body, at most
MaxSentences == 3

Filler == <<"a", "n", "d", " ", "i", "t", " ", "g", "o", "e", "s", " ", "o", "n", " ", "a", "n", "d", " ", "o", "n", " ", "a", "n", "d", " ", "o", "n", " ">>

\* sentences bodies are built from: under 50 characters, between 50 and 200,
\* too short to be a candidate, and over 200
SentenceVocab ==
  { <<"c", "a", "t", "s", " ", "a", "r", "e", " ", "s", "m", "a", "l", "l", " ", "f", "u", "r", "r", "y", " ", "m", "a", "m", "m", "a", "l", "s">>,
    <<"D", "o", "g", "s", " ", "a", "r", "e", " ", "l", "o", "y", "a", "l", " ", "p", "e", "t", "s", " ", "a", "n", "d", " ", "v", "e", "r", "y", " ", "g", "o", "o", "d", " ", "c", "o", "m", "p", "a", "n", "i", "o", "n", "s", " ", "t", "o", " ", "h", "u", "m", "a", "n", "s", " ", "e", "v", "e", "r", "y", "w", "h", "e", "r", "e">>,
    <<"b", "i", "r", "d", "s", " ", "f", "l", "y">>,
    <<"a", " ", "l", "o", "n", "g", " ", "o", "n", "e", " ">> \o Filler \o Filler \o Filler \o Filler \o Filler \o Filler
      \o Filler }

\* "<sentence>. <sentence>. <sentence>."
SectionTexts ==
  {<<>>} \cup
  { join(SentenceEnd, ss) \o <<".">> :
      ss \in UNION { [1..n -> SentenceVocab] : n \in 1..MaxSentences } }

QueryVectors == { <<>>, <<"d", "o", "g", "s", " ", "l", "o", "y", "a", "l">>, <<"c", "a", "t", "s", " ", "m", "a", "m", "m", "a", "l", "s", " ", "b", "i", "r", "d", "s">> }

MaxLengths == {0, 10, 29, 100, DefaultMaxLength}

\* the files of one batch, the workers of the pool and the timeout, in
\* ticks of the clock the tasks and the collector share
MaxFiles == 3
MaxWorkers == 2
TimeoutTicks == 2
\* a task runs this long at most: longer than two expired waits
MaxRunTime == 2 * TimeoutTicks + 1

Outcomes == {"pages", "empty", "raises"}

\* ------------------------------------------------------------ state
VARIABLES
  min_section_length,  \* self.config.get('min_section_length', 30)
  page_number,         \* page['page_number'] of the page being split
  page_text,           \* page['text']
  font_info,           \* page.get('font_info', [])
  lines,               \* page_text.split('\n')
  line_idx,            \* i of enumerate(lines): lines before it are consumed
  current_title,
  current_content,
  sections,            \* the list detect_sections_universal builds and returns
  sec_idx,             \* sections before it went through the admission test
  section_chunks,      \* the result of split_documents_into_sections
  lines_read,          \* lines of the pages handed to the splitter so far
  pc,                  \* "page", "line", "filter" or "done"
  section_text,        \* extract_refined_snippet's arguments
  query_vector,
  max_length,
  sentences,           \* the candidate sentences
  sentence_scores,     \* the (sentence, final_score) pairs
  result,              \* the accumulated snippet
  acc_idx,             \* pairs of sentence_scores the last loop went through
  snippet,             \* the value returned
  sn_pc,               \* "split", "score", "accumulate", "return" or "done"
  pdf_filenames,       \* extract_documents_text's argument: file names 1..n
  is_file,             \* os.path.isfile(pdf_path) of each file name
  outcome,             \* what extracting each file comes to: "pages",
                       \* "empty" (no page) or "raises"
  max_workers,         \* self.max_workers
  task,                \* each file's task: "none", "queued", "running", "finished"
  run_time,            \* the ticks each task has been running
  futures,             \* the submitted file names, in submission order
  submit_idx,          \* file names the submission loop went through
  collect_idx,         \* futures the collection loop went through
  waited,              \* the ticks future.result has been waiting
  extracted,           \* the file names that have an entry in extracted
  ex_pc                \* "submit", "collect", "shutdown" or "done"

segVars == <<min_section_length, page_number, page_text, font_info,
             lines, line_idx, current_title, current_content, sections,
             sec_idx, section_chunks, lines_read, pc>>

snipVars == <<section_text, query_vector, max_length, sentences,
              sentence_scores, result, acc_idx, snippet, sn_pc>>

extVars == <<pdf_filenames, is_file, outcome, max_workers, task, run_time,
             futures, submit_idx, collect_idx, waited, extracted, ex_pc>>

vars == <<segVars, snipVars, extVars>>

accumulator ==
  [sections |-> sections, current_title |-> current_title,
   current_content |-> current_content]

line_stripped == strip(lines[line_idx + 1])

\* no batch is being extracted
ExtIdle ==
  /\ pdf_filenames = {}
  /\ is_file = <<>>
  /\ outcome = <<>>
  /\ max_workers = MaxWorkers
  /\ task = <<>>
  /\ run_time = <<>>
  /\ futures = <<>>
  /\ submit_idx = 0
  /\ collect_idx = 0
  /\ waited = 0
  /\ extracted = {}
  /\ ex_pc = "idle"

\* no snippet is being extracted
SnipIdle ==
  /\ section_text = <<>>
  /\ query_vector = <<>>
  /\ max_length = DefaultMaxLength
  /\ sentences = <<>>
  /\ sentence_scores = <<>>
  /\ result = <<>>
  /\ acc_idx = 0
  /\ snippet = <<>>
  /\ sn_pc = "idle"

SegInit ==
  /\ min_section_length \in MinSectionLengths
  /\ page_number = 0
  /\ page_text = <<>>
  /\ font_info = <<>>
  /\ lines = <<>>
  /\ line_idx = 0
  /\ current_title = None
  /\ current_content = <<>>
  /\ sections = <<>>
  /\ sec_idx = 0
  /\ section_chunks = <<>>
  /\ lines_read = 0
  /\ pc = "page"
  /\ SnipIdle
  /\ ExtIdle

\* the page loop is at its head: before the first page, or when the
\* sections of the page before all went through the admission test
at_page_loop == pc = "page" \/ (pc = "filter" /\ sec_idx = Len(sections))

\* for doc_name, pages in docs_text.items(): for page in pages: the next
\* page of the document is read (the reader numbers pages from 1) and
\* detect_sections_universal starts on it
ReadPage ==
  /\ at_page_loop
  /\ \E n \in 1..(MaxLines - lines_read), fonts \in FontInfos :
     \E text \in PageTexts(n) :
       /\ lines_read' = lines_read + n
       /\ page_number' = page_number + 1
       /\ page_text' = text
       /\ font_info' = fonts
       /\ lines' = split_on(text, "\n")
  /\ line_idx' = 0
  /\ sections' = <<>>
  /\ current_title' = None
  /\ current_content' = <<>>
  /\ sec_idx' = 0
  /\ pc' = "line"
  /\ UNCHANGED <<min_section_length, section_chunks, snipVars, extVars>>

\* if not line_stripped: continue
SkipBlankLine ==
  /\ pc = "line"
  /\ line_idx < Len(lines)
  /\ line_stripped = <<>>
  /\ line_idx' = line_idx + 1
  /\ UNCHANGED <<min_section_length, page_number, page_text,
                 font_info, lines, current_title, current_content, sections,
                 sec_idx, section_chunks, lines_read, pc, snipVars, extVars>>

\* if is_header: the pending section is saved and a new one begins
HeaderLine ==
  /\ pc = "line"
  /\ line_idx < Len(lines)
  /\ line_stripped # <<>>
  /\ is_likely_header(line_stripped, line_idx, font_info)
  /\ LET acc == on_header(accumulator, line_stripped)
     IN /\ sections' = acc.sections
        /\ current_title' = acc.current_title
        /\ current_content' = acc.current_content
  /\ line_idx' = line_idx + 1
  /\ UNCHANGED <<min_section_length, page_number, page_text,
                 font_info, lines, sec_idx, section_chunks, lines_read, pc, snipVars, extVars>>

\* else: current_content.append(line)
ContentLine ==
  /\ pc = "line"
  /\ line_idx < Len(lines)
  /\ line_stripped # <<>>
  /\ ~is_likely_header(line_stripped, line_idx, font_info)
  /\ LET acc == on_content(accumulator, lines[line_idx + 1])
     IN /\ sections' = acc.sections
        /\ current_title' = acc.current_title
        /\ current_content' = acc.current_content
  /\ line_idx' = line_idx + 1
  /\ UNCHANGED <<min_section_length, page_number, page_text,
                 font_info, lines, sec_idx, section_chunks, lines_read, pc, snipVars, extVars>>

\* "Add final section" and return sections
FinalFlush ==
  /\ pc = "line"
  /\ line_idx = Len(lines)
  /\ sections' = final_sections(accumulator)
  /\ pc' = "filter"
  /\ UNCHANGED <<min_section_length, page_number, page_text,
                 font_info, lines, line_idx, current_title, current_content,
                 sec_idx, section_chunks, lines_read, snipVars, extVars>>

\* if len(section_text.strip()) < min_section_length: continue
DropSection ==
  /\ pc = "filter"
  /\ sec_idx < Len(sections)
  /\ ~admitted(sections[sec_idx + 1][2], min_section_length)
  /\ sec_idx' = sec_idx + 1
  /\ UNCHANGED <<min_section_length, page_number, page_text,
                 font_info, lines, line_idx, current_title, current_content,
                 sections, section_chunks, lines_read, pc, snipVars, extVars>>

\* section_chunks.append({...})
AppendSection ==
  /\ pc = "filter"
  /\ sec_idx < Len(sections)
  /\ admitted(sections[sec_idx + 1][2], min_section_length)
  /\ section_chunks' =
       Append(section_chunks,
              section_record(doc_name, page_number, sections[sec_idx + 1][1],
                             sections[sec_idx + 1][2]))
  /\ sec_idx' = sec_idx + 1
  /\ UNCHANGED <<min_section_length, page_number, page_text,
                 font_info, lines, line_idx, current_title, current_content,
                 sections, lines_read, pc, snipVars, extVars>>

\* return section_chunks
ReturnChunks ==
  /\ at_page_loop
  /\ pc' = "done"
  /\ UNCHANGED <<min_section_length, page_number, page_text,
                 font_info, lines, line_idx, current_title, current_content,
                 sections, sec_idx, section_chunks, lines_read, snipVars, extVars>>

SegNext ==
  \/ ReadPage
  \/ SkipBlankLine
  \/ HeaderLine
  \/ ContentLine
  \/ FinalFlush
  \/ DropSection
  \/ AppendSection
  \/ ReturnChunks

SegSpec == SegInit /\ [][SegNext]_vars

\* ------------------------------------------------------------ extract_refined_snippet
\* the splitter is idle while a snippet is extracted
SegIdle ==
  /\ min_section_length = DefaultMinSectionLength
  /\ page_number = 0
  /\ page_text = <<>>
  /\ font_info = <<>>
  /\ lines = <<>>
  /\ line_idx = 0
  /\ current_title = None
  /\ current_content = <<>>
  /\ sections = <<>>
  /\ sec_idx = 0
  /\ section_chunks = <<>>
  /\ lines_read = 0
  /\ pc = "idle"

SnipInit ==
  /\ section_text \in SectionTexts
  /\ query_vector \in QueryVectors
  /\ max_length \in MaxLengths
  /\ sentences = <<>>
  /\ sentence_scores = <<>>
  /\ result = <<>>
  /\ acc_idx = 0
  /\ snippet = <<>>
  /\ sn_pc = "split"
  /\ SegIdle
  /\ ExtIdle

\* if not sentences: return section_text[:max_length]
NoSentences ==
  /\ sn_pc = "split"
  /\ candidate_sentences(section_text) = <<>>
  /\ snippet' = prefix(section_text, max_length)
  /\ sn_pc' = "done"
  /\ UNCHANGED <<section_text, query_vector, max_length, sentences,
                 sentence_scores, result, acc_idx, segVars, extVars>>

\* the candidate list is not empty: the scoring loop starts
SplitSentences ==
  /\ sn_pc = "split"
  /\ candidate_sentences(section_text) # <<>>
  /\ sentences' = candidate_sentences(section_text)
  /\ sn_pc' = "score"
  /\ UNCHANGED <<section_text, query_vector, max_length, sentence_scores,
                 result, acc_idx, snippet, segVars, extVars>>

\* one iteration of "for sentence in sentences"
ScoreSentence ==
  /\ sn_pc = "score"
  /\ Len(sentence_scores) < Len(sentences)
  /\ LET k == Len(sentence_scores)
     IN sentence_scores' =
          Append(sentence_scores,
                 <<sentences[k + 1],
                   final_score(sentences, word_set(query_vector), k)>>)
  /\ UNCHANGED <<section_text, query_vector, max_length, sentences, result,
                 acc_idx, snippet, sn_pc, segVars, extVars>>

\* sentence_scores.sort(key=lambda x: x[1], reverse=True); result = ""
SortScores ==
  /\ sn_pc = "score"
  /\ Len(sentence_scores) = Len(sentences)
  /\ sentence_scores' = sort_by_score(sentence_scores)
  /\ result' = <<>>
  /\ acc_idx' = 0
  /\ sn_pc' = "accumulate"
  /\ UNCHANGED <<section_text, query_vector, max_length, sentences, snippet,
                 segVars, extVars>>

\* result += sentence + ". "
AppendSentence ==
  /\ sn_pc = "accumulate"
  /\ acc_idx < Len(sentence_scores)
  /\ fits(result, sentence_scores[acc_idx + 1][1], max_length)
  /\ result' = result \o sentence_scores[acc_idx + 1][1] \o SentenceEnd
  /\ acc_idx' = acc_idx + 1
  /\ UNCHANGED <<section_text, query_vector, max_length, sentences,
                 sentence_scores, snippet, sn_pc, segVars, extVars>>

\* else: break
StopAccumulating ==
  /\ sn_pc = "accumulate"
  /\ acc_idx < Len(sentence_scores)
  /\ ~fits(result, sentence_scores[acc_idx + 1][1], max_length)
  /\ sn_pc' = "return"
  /\ UNCHANGED <<section_text, query_vector, max_length, sentences,
                 sentence_scores, result, acc_idx, snippet, segVars, extVars>>

\* the accumulation loop is over, by break or at the end of the list
at_return ==
  \/ sn_pc = "return"
  \/ (sn_pc = "accumulate" /\ acc_idx = Len(sentence_scores))

\* return result.strip() if result else sentences[0][:max_length]
ReturnResult ==
  /\ at_return
  /\ result # <<>>
  /\ snippet' = strip(result)
  /\ sn_pc' = "done"
  /\ UNCHANGED <<section_text, query_vector, max_length, sentences,
                 sentence_scores, result, acc_idx, segVars, extVars>>

ReturnFallback ==
  /\ at_return
  /\ result = <<>>
  /\ snippet' = fallback_snippet(sentences, max_length)
  /\ sn_pc' = "done"
  /\ UNCHANGED <<section_text, query_vector, max_length, sentences,
                 sentence_scores, result, acc_idx, segVars, extVars>>

SnipNext ==
  \/ NoSentences
  \/ SplitSentences
  \/ ScoreSentence
  \/ SortScores
  \/ AppendSentence
  \/ StopAccumulating
  \/ ReturnResult
  \/ ReturnFallback

SnipSpec == SnipInit /\ [][SnipNext]_vars

\* ------------------------------------------------------------ extract_documents_text
\* extract_pdf_with_metadata: the page list, [] for a document without
\* pages and, by its except clause, [] for one that raises
extract_pdf_with_metadata(o) == IF o = "pages" THEN "pages" ELSE "empty"

ExtInit ==
  /\ \E n \in 1..MaxFiles :
        /\ pdf_filenames = 1..n
        /\ is_file \in [1..n -> BOOLEAN]
        /\ outcome \in [1..n -> Outcomes]
        /\ task = [f \in 1..n |-> "none"]
        /\ run_time = [f \in 1..n |-> 0]
  /\ max_workers \in 1..MaxWorkers
  /\ futures = <<>>
  /\ submit_idx = 0
  /\ collect_idx = 0
  /\ waited = 0
  /\ extracted = {}
  /\ ex_pc = "submit"
  /\ SegIdle
  /\ SnipIdle

running == {f \in pdf_filenames : task[f] = "running"}

queued == {f \in pdf_filenames : task[f] = "queued"}

\* the place the main thread is at once n_submitted file names went
\* through the first loop and n_collected futures through the second
main_pc(n_submitted, n_futures, n_collected) ==
  IF n_submitted < Cardinality(pdf_filenames) THEN "submit"
  ELSE IF n_collected < n_futures THEN "collect"
  ELSE "shutdown"

\* futures[executor.submit(self.extract_pdf_with_metadata, pdf_path)] = fname
SubmitFile ==
  /\ ex_pc = "submit"
  /\ is_file[submit_idx + 1]
  /\ futures' = Append(futures, submit_idx + 1)
  /\ task' = [task EXCEPT ![submit_idx + 1] = "queued"]
  /\ submit_idx' = submit_idx + 1
  /\ ex_pc' = main_pc(submit_idx', Len(futures'), collect_idx)
  /\ UNCHANGED <<pdf_filenames, is_file, outcome, max_workers, run_time,
                 collect_idx, waited, extracted, segVars, snipVars>>

\* if os.path.isfile(pdf_path): is false
SkipMissingFile ==
  /\ ex_pc = "submit"
  /\ ~is_file[submit_idx + 1]
  /\ submit_idx' = submit_idx + 1
  /\ ex_pc' = main_pc(submit_idx', Len(futures), collect_idx)
  /\ UNCHANGED <<pdf_filenames, is_file, outcome, max_workers, task, run_time,
                 futures, collect_idx, waited, extracted, segVars, snipVars>>

\* a worker of the pool is free and takes the task submitted first
startable(f) ==
  /\ f \in queued
  /\ \A g \in queued : f <= g
  /\ Cardinality(running) < max_workers

StartTask ==
  /\ \E f \in pdf_filenames :
        /\ startable(f)
        /\ task' = [task EXCEPT ![f] = "running"]
  /\ UNCHANGED <<pdf_filenames, is_file, outcome, max_workers, run_time,
                 futures, submit_idx, collect_idx, waited, extracted, ex_pc,
                 segVars, snipVars>>

\* extract_pdf_with_metadata returns and the future is done
FinishTask ==
  /\ \E f \in running : task' = [task EXCEPT ![f] = "finished"]
  /\ UNCHANGED <<pdf_filenames, is_file, outcome, max_workers, run_time,
                 futures, submit_idx, collect_idx, waited, extracted, ex_pc,
                 segVars, snipVars>>

\* future.result(timeout=self.timeout) is waiting on a future that is not done
waiting == ex_pc = "collect" /\ task[futures[collect_idx + 1]] # "finished"

\* one tick passes: the running tasks run on, and the wait of future.result
\* grows. The submission loop takes no tick, and no tick passes while a
\* free worker has a task to take, when the awaited future is done, or when
\* the wait has reached the timeout.
Tick ==
  /\ ex_pc \in {"collect", "shutdown"}
  /\ running # {}
  /\ \A f \in pdf_filenames : ~startable(f)
  /\ \A f \in running : run_time[f] < MaxRunTime
  /\ ex_pc = "collect" => (waiting /\ waited < TimeoutTicks)
  /\ run_time' = [f \in pdf_filenames |->
                    IF f \in running THEN run_time[f] + 1 ELSE run_time[f]]
  /\ waited' = IF waiting THEN waited + 1 ELSE waited
  /\ UNCHANGED <<pdf_filenames, is_file, outcome, max_workers, task, futures,
                 submit_idx, collect_idx, extracted, ex_pc, segVars, snipVars>>

\* result = future.result(...); if result: extracted[fname] = result
CollectPages ==
  /\ ex_pc = "collect"
  /\ ~waiting
  /\ extract_pdf_with_metadata(outcome[futures[collect_idx + 1]]) = "pages"
  /\ extracted' = extracted \cup {futures[collect_idx + 1]}
  /\ collect_idx' = collect_idx + 1
  /\ waited' = 0
  /\ ex_pc' = main_pc(submit_idx, Len(futures), collect_idx')
  /\ UNCHANGED <<pdf_filenames, is_file, outcome, max_workers, task, run_time,
                 futures, submit_idx, segVars, snipVars>>

\* else: logging.warning("No content extracted ...")
CollectNothing ==
  /\ ex_pc = "collect"
  /\ ~waiting
  /\ extract_pdf_with_metadata(outcome[futures[collect_idx + 1]]) = "empty"
  /\ collect_idx' = collect_idx + 1
  /\ waited' = 0
  /\ ex_pc' = main_pc(submit_idx, Len(futures), collect_idx')
  /\ UNCHANGED <<pdf_filenames, is_file, outcome, max_workers, task, run_time,
                 futures, submit_idx, extracted, segVars, snipVars>>

\* future.result raises TimeoutError after self.timeout; except Exception
\* logs it and the loop goes on
CollectTimeout ==
  /\ waiting
  /\ waited = TimeoutTicks
  /\ collect_idx' = collect_idx + 1
  /\ waited' = 0
  /\ ex_pc' = main_pc(submit_idx, Len(futures), collect_idx')
  /\ UNCHANGED <<pdf_filenames, is_file, outcome, max_workers, task, run_time,
                 futures, submit_idx, extracted, segVars, snipVars>>

\* the with block ends: shutdown(wait=True) returns when every submitted
\* task has finished; return extracted
ShutdownAndReturn ==
  /\ ex_pc = "shutdown"
  /\ \A f \in pdf_filenames : task[f] \in {"none", "finished"}
  /\ ex_pc' = "done"
  /\ UNCHANGED <<pdf_filenames, is_file, outcome, max_workers, task, run_time,
                 futures, submit_idx, collect_idx, waited, extracted, segVars,
                 snipVars>>

ExtNext ==
  \/ SubmitFile
  \/ SkipMissingFile
  \/ StartTask
  \/ FinishTask
  \/ Tick
  \/ CollectPages
  \/ CollectNothing
  \/ CollectTimeout
  \/ ShutdownAndReturn

ExtSpec == ExtInit /\ [][ExtNext]_vars

\* ------------------------------------------------------------ claims on segmentation
\* line k (counted from 1) of the page being split is classified a header
header_at(k) ==
  /\ strip(lines[k]) # <<>>
  /\ is_likely_header(strip(lines[k]), k - 1, font_info)

header_indices == {k \in 1..Len(lines) : header_at(k)}

non_blank(ls) == SelectSeq(ls, LAMBDA l : strip(l) # <<>>)

\* detect_sections_universal has returned for the page being split
page_done == pc = "filter"

\* the emitted bodies and titles of the page, in order
bodies == [k \in 1..Len(sections) |-> sections[k][2]]

\* the lines strictly between index a (0, or a header line of H) and the
\* next header line of H (or the page end)
chunk_after(a, H) ==
  LET later == {h \in H : h > a}
      b == IF later = {} THEN Len(lines) + 1
           ELSE CHOOSE h \in later : \A g \in later : h <= g
  IN SubSeq(lines, a + 1, b - 1)

RECURSIVE sorted_seq(_)
sorted_seq(set) ==
  IF set = {} THEN <<>>
  ELSE LET m == CHOOSE a \in set : \A b \in set : a <= b
       IN <<m>> \o sorted_seq(set \ {m})

\* the page cut at its header lines H, each cut trimmed, empty cuts left out
trimmed_chunks(H) ==
  LET starts == sorted_seq({0} \cup H)
  IN SelectSeq([j \in 1..Len(starts) |->
                  strip(join(NL, chunk_after(starts[j], H)))],
               LAMBDA c : c # <<>>)

\* the same with the blank lines of each cut left out
trimmed_chunks_without_blank_lines(H) ==
  LET starts == sorted_seq({0} \cup H)
  IN SelectSeq([j \in 1..Len(starts) |->
                  strip(join(NL, non_blank(chunk_after(starts[j], H))))],
               LAMBDA c : c # <<>>)

chunk_records == {section_chunks[k] : k \in 1..Len(section_chunks)}

\* candidate k of the page being split is in the output
in_output(k) ==
  \E r \in chunk_records :
     /\ r.document = doc_name
     /\ r.page_number = page_number
     /\ r.section_title = sections[k][1]
     /\ r.section_text = sections[k][2]

\* C3: every record of split_documents_into_sections has a non-empty title
\* and a body whose trimmed length is non-zero and at least
\* min_section_length; a candidate that went through the admission test is
\* in the output exactly when its trimmed length is at least
\* min_section_length.
C3_AdmissionFilter ==
  /\ \A r \in chunk_records :
        /\ r.section_title # <<>>
        /\ Len(strip(r.section_text)) > 0
        /\ Len(strip(r.section_text)) >= min_section_length
  /\ pc = "filter" =>
        \A k \in 1..sec_idx :
           in_output(k) = (Len(strip(sections[k][2])) >= min_section_length)

C3_Witness ==
  /\ pc = "filter"
  /\ min_section_length = DefaultMinSectionLength
  /\ \E k \in 1..sec_idx :
        /\ Len(strip(sections[k][2])) = min_section_length - 1
        /\ ~in_output(k)
  /\ \E r \in chunk_records :
        Len(strip(r.section_text)) = min_section_length

\* no line of text is classified a header when text is segmented alone
no_header_line(text) ==
  LET ls == split_on(text, "\n")
  IN \A k \in 1..Len(ls) :
        strip(ls[k]) = <<>> \/ ~is_likely_header(strip(ls[k]), k - 1, <<>>)

\* C9: segmenting an emitted body that holds no header line returns exactly
\* one section, whose body is that body.
C9_Idempotent ==
  page_done =>
     \A k \in 1..Len(sections) :
        no_header_line(sections[k][2]) =>
           LET again == detect_sections_universal(sections[k][2], <<>>)
           IN Len(again) = 1 /\ again[1][2] = sections[k][2]

C9_Witness ==
  /\ page_done
  /\ \E k \in 1..Len(sections) :
        /\ sections[k][1] # UntitledSection
        /\ Len(split_on(sections[k][2], "\n")) >= 2
        /\ no_header_line(sections[k][2])
        /\ Len(detect_sections_universal(sections[k][2], <<>>)) = 1

\* the runs of lines the header lines H cut the page into: where each
\* starts (0, or the index of the header line before it), the title that
\* header gives it, and its non-blank lines joined and trimmed
runs(H) ==
  LET starts == sorted_seq({0} \cup H)
  IN [j \in 1..Len(starts) |->
        LET a == starts[j]
        IN [start |-> a,
            title |-> IF a = 0 THEN UntitledSection ELSE strip(lines[a]),
            body |-> strip(join(NL, non_blank(chunk_after(a, H))))]]

\* the runs that are not empty and whose end the scan has passed
closed_runs(H) ==
  LET closed(r) == /\ r.body # <<>>
                   /\ (pc = "filter" \/ \E h \in H : h > r.start /\ h <= line_idx)
      sel == SelectSeq(runs(H), closed)
  IN [k \in 1..Len(sel) |-> <<sel[k].title, sel[k].body>>]

\* C10: a page starts with an empty accumulator; while a page is scanned the
\* pending title is None until the first header line and afterwards the
\* trimmed text of the most recent header line, and the pending body is the
\* non-blank lines since that header (none of them a header line); the
\* emitted sections are, in order, the non-empty runs of lines between
\* header lines, each titled by the header line right before it, and
\* "Untitled Section" is given only to the run before the first header line.
C10_TitleOfMostRecentHeader ==
  LET H == header_indices
      seen == {h \in H : h <= line_idx}
      last == CHOOSE h \in seen : \A g \in seen : g <= h
  IN /\ (pc = "line" /\ line_idx = 0) =>
           current_title = None /\ current_content = <<>> /\ sections = <<>>
     /\ pc = "line" =>
           /\ (current_title = None) = (seen = {})
           /\ seen # {} => current_title = strip(lines[last])
           /\ current_content =
                non_blank(SubSeq(lines, IF seen = {} THEN 1 ELSE last + 1,
                                 line_idx))
     /\ pc \in {"line", "filter"} => sections = closed_runs(H)

C10_Witness ==
  /\ page_done
  /\ lines_read > Len(lines)
  /\ Len(sections) = 1
  /\ sections[1][1] = UntitledSection
  /\ \E r \in chunk_records :
        r.section_title = <<"S", "u", "m", "m", "a", "r", "y">> /\ r.page_number < page_number
\* ------------------------------------------------------------ claims on snippets
\* the first n sorted sentences, each with its ". "
RECURSIVE whole_sentences(_)
whole_sentences(n) ==
  IF n = 0 THEN <<>>
  ELSE whole_sentences(n - 1) \o sentence_scores[n][1] \o SentenceEnd

\* C6: the snippet returned is at most max_length long; the accumulated
\* result is always whole sentences of the sorted list, each with its ". ",
\* and never longer than max_length.
C6_SnippetWithinMaxLength ==
  /\ sn_pc = "done" => Len(snippet) <= max_length
  /\ sn_pc \in {"accumulate", "return", "done"} =>
        /\ result = whole_sentences(acc_idx)
        /\ Len(result) <= max_length

C6_Witness ==
  /\ sn_pc = "return"
  /\ acc_idx >= 1
  /\ acc_idx < Len(sentence_scores)
  /\ result = whole_sentences(acc_idx)
  /\ Len(result) <= max_length
  /\ Len(result \o sentence_scores[acc_idx + 1][1] \o SentenceEnd) > max_length

\* C7: when there are candidates and none was accumulated, the snippet is
\* the first max_length characters of the top-ranked candidate, the first
\* of the sorted list.
C7_FallbackIsTopRanked ==
  (sn_pc = "done" /\ sentences # <<>> /\ result = <<>>) =>
     snippet = prefix(sentence_scores[1][1], max_length)

\* C8: the candidate at place i (from 0) of N is scored with the position
\* bonus (N - i) / N * 0.1 of its own place, so that of two identical
\* candidates the earlier one has the larger score.
C8_PositionBonusFromIndex ==
  sn_pc = "score" =>
     /\ \A k \in 1..Len(sentence_scores) :
           same_score(sentence_scores[k][2],
                      score_at(sentences[k], word_set(query_vector), k - 1,
                               Len(sentences)))
     /\ \A i \in 1..Len(sentence_scores) : \A j \in (i + 1)..Len(sentence_scores) :
           sentences[i] = sentences[j] =>
              greater(sentence_scores[i][2], sentence_scores[j][2])
\* ------------------------------------------------------------ claims on the extractor
submitted == {futures[k] : k \in 1..Len(futures)}

\* C4: when the batch has returned, every submitted document whose own task
\* gave a non-empty page list in less than the timeout has its entry,
\* whatever the other documents' tasks did, and every entry is a submitted
\* document's non-empty page list.
C4_OthersNeverExcluded ==
  ex_pc = "done" =>
     /\ \A f \in submitted :
           (outcome[f] = "pages" /\ run_time[f] < TimeoutTicks) => f \in extracted
     /\ \A f \in extracted : f \in submitted /\ outcome[f] = "pages"

\* C5: when the batch has returned, no task that ran longer than the
\* timeout has an entry.
C5_PerTaskTimeout ==
  ex_pc = "done" =>
     \A f \in submitted : run_time[f] > TimeoutTicks => f \notin extracted
====
